---------------------------- MODULE Spec2Model ----------------------------
(***************************************************************************)
(* A model of the cardiology backend: the analyze-heart request handler    *)
(* (main.py) and the volume-to-slice pipeline it calls (imaging.py).       *)
(*                                                                         *)
(* Conventions.  Array indices are 0-based as in Python; TLA+ sequences    *)
(* are 1-based, so shape[d] of the source is shape[d+1] here.  A float is  *)
(* a record [k, v]: k = "fin" with an integer v, or k = "nan", "pinf",     *)
(* "ninf" (v = 0).  Voxel data are small integers, so float arithmetic on  *)
(* them is exact except where noted.                                       *)
(***************************************************************************)
EXTENDS Integers, Sequences, FiniteSets, TLC

(***************************************************************************)
(* Bounds of the model.                                                    *)
(***************************************************************************)
\* the largest axis extent of an input volume
MaxExtent == 12
\* the largest spacing value a header declares, in half millimetres
MaxZoom == 3

(***************************************************************************)
(* Floats.                                                                 *)
(***************************************************************************)
Fin(n) == [k |-> "fin", v |-> n]
NaN == [k |-> "nan", v |-> 0]
PosInf == [k |-> "pinf", v |-> 0]
NegInf == [k |-> "ninf", v |-> 0]

\* x <= y on non-NaN floats
FLeq(x, y) ==
    \/ x.k = "ninf"
    \/ y.k = "pinf"
    \/ x.k = "fin" /\ y.k = "fin" /\ x.v <= y.v

\* np.min: NaN if any element is NaN, else the least element
NpMin(vals) ==
    IF NaN \in vals THEN NaN
    ELSE CHOOSE m \in vals : \A x \in vals : FLeq(m, x)

\* np.max: NaN if any element is NaN, else the greatest element
NpMax(vals) ==
    IF NaN \in vals THEN NaN
    ELSE CHOOSE m \in vals : \A x \in vals : FLeq(x, m)

\* IEEE subtraction a - b on the floats of the model
FSub(a, b) ==
    IF a.k = "nan" \/ b.k = "nan" THEN NaN
    ELSE IF a.k = "fin" /\ b.k = "fin" THEN Fin(a.v - b.v)
    ELSE IF a.k = b.k THEN NaN                 \* inf - inf
    ELSE IF a.k = "pinf" \/ b.k = "ninf" THEN PosInf
    ELSE NegInf

(***************************************************************************)
(* Input volumes.  A volume is [shape, pat]: the array's shape and the     *)
(* pattern that fills it.  Its number of dimensions is Len(shape).         *)
(***************************************************************************)
Extents == {0, 1, 5, 10, MaxExtent}
\* the extent of a 4th (time) axis
TimeExtents == {0, 1, 3}
Patterns == {"flat", "ramp", "plateau", "nan", "pinf", "ninf"}

Min2(a, b) == IF a <= b THEN a ELSE b

\* the value 0 / 1 / 2 of the plateau pattern: low on the first plane of
\* axis 0, high on the last, in between elsewhere
Plateau(i, n) == IF i = 0 THEN 0 ELSE IF i = n - 1 THEN 2 ELSE 1

\* is (i, j) on the line through the centre of axes 0 and 1?
OnCentreLine(idx, shape) ==
    idx[1] = shape[1] \div 2 /\ idx[2] = shape[2] \div 2

\* the voxel of volume vol at index idx (a sequence of Len(vol.shape)
\* 0-based coordinates); the patterns do not vary along axes 2 and 3
Voxel(vol, idx) ==
    CASE vol.pat = "flat" -> Fin(7)
      [] vol.pat = "ramp" -> Fin(idx[1])
      [] vol.pat = "plateau" -> Fin(Plateau(idx[1], vol.shape[1]))
      [] vol.pat = "nan" ->
            IF OnCentreLine(idx, vol.shape) THEN NaN
            ELSE Fin(Plateau(idx[1], vol.shape[1]))
      [] vol.pat = "pinf" ->
            IF OnCentreLine(idx, vol.shape) THEN PosInf
            ELSE Fin(Plateau(idx[1], vol.shape[1]))
      [] vol.pat = "ninf" ->
            IF OnCentreLine(idx, vol.shape) THEN NegInf
            ELSE Fin(Plateau(idx[1], vol.shape[1]))

Shapes ==
    {<<5>>}
    \cup {<<a, b>> : a \in {4, 10}, b \in {4, 10}}
    \cup {<<a, b, c>> : a \in Extents, b \in Extents, c \in Extents}
    \cup {<<a, b, c, t>> : a \in {1, 3, 4}, b \in {3, 10}, c \in {4, MaxExtent},
                           t \in TimeExtents}

Volumes == {[shape |-> s, pat |-> p] : s \in Shapes, p \in Patterns}

\* the index tuples of an array of the given shape (2 or 3 dimensions)
IndexSet(shape) ==
    IF Len(shape) = 2
    THEN {<<i, j>> : i \in 0..(shape[1] - 1), j \in 0..(shape[2] - 1)}
    ELSE {<<i, j, k>> : i \in 0..(shape[1] - 1), j \in 0..(shape[2] - 1),
                        k \in 0..(shape[3] - 1)}

\* a sequence without its element at position p
DropAt(s, p) == [q \in 1..(Len(s) - 1) |-> IF q < p THEN s[q] ELSE s[q + 1]]

\* a sequence with x inserted at position p
InsertAt(s, p, x) ==
    [q \in 1..(Len(s) + 1) |-> IF q < p THEN s[q] ELSE IF q = p THEN x ELSE s[q - 1]]

(***************************************************************************)
(* Slices.  An array is [shape, data]: data maps IndexSet(shape) to its    *)
(* elements.                                                               *)
(***************************************************************************)
AxisNames == <<"axial", "coronal", "sagittal">>
\* the 1-based position of the array axis each slice fixes: axial the
\* last of the three, coronal the middle one, sagittal the first
FixedAxis == [axial |-> 3, coronal |-> 2, sagittal |-> 1]

CenterIndexRoundUp(shape, name) == (shape[FixedAxis[name]] + 1) \div 2

\* shape[axis] // 2
CenterIndex(shape, name) == shape[FixedAxis[name]] \div 2

\* data[:, :, idx], data[:, idx, :], data[idx, :, :]: the array with the
\* fixed axis removed; every other axis, a 4th one included, is kept
ExtractSlice(vol, name, idx) ==
    LET sh == DropAt(vol.shape, FixedAxis[name])
    IN  [shape |-> sh,
         data |-> [c \in IndexSet(sh) |->
                      Voxel(vol, InsertAt(c, FixedAxis[name], idx))]]

\* indexing axis `name` of an array at idx raises IndexError when idx is
\* out of range
IndexInRange(shape, name, idx) == 0 <= idx /\ idx < shape[FixedAxis[name]]

Values(arr) == {arr.data[c] : c \in DOMAIN arr.data}

RECURSIVE SeqProduct(_)
SeqProduct(s) == IF s = <<>> THEN 1 ELSE Head(s) * SeqProduct(Tail(s))

RECURSIVE SeqMin(_)
SeqMin(s) == IF Len(s) = 1 THEN s[1] ELSE Min2(Head(s), SeqMin(Tail(s)))

IsEmptyArray(arr) == SeqProduct(arr.shape) = 0

(***************************************************************************)
(* create_heart_mask and create_heart_shape_mask.                          *)
(***************************************************************************)
\* threshold_low = 0.3 and threshold_high = 0.8, in tenths
ThresholdLowTenths == 3
ThresholdHighTenths == 8
\* the least pixel count of a thresholded mask that is kept
MinMaskPixels == 100

\* the band with an inclusive lower threshold
InBandInclusive(x, mn, mx) ==
    LET num == FSub(x, mn)
        den == FSub(mx, mn)
    IN  /\ num.k = "fin"
        /\ den.k = "fin"
        /\ 10 * num.v >= 3 * den.v
        /\ 10 * num.v <= 8 * den.v

\* (x - mn) / (mx - mn + 1e-8) > 0.3 and < 0.8, in IEEE arithmetic.
\* A NaN operand makes the quotient NaN and both comparisons false; an
\* infinite denominator makes it 0 or NaN.  For finite integers, with
\* n = x - mn and r = mx - mn, n / (r + e) > 3/10 iff 10 n > 3 r + 3 e
\* iff 10 n > 3 r, and n / (r + e) < 8/10 iff 10 n < 8 r + 8 e iff
\* 10 n <= 8 r, since 10 n, 3 r, 8 r are integers and 0 < 8 e < 1.
InBand(x, mn, mx) ==
    LET num == FSub(x, mn)
        den == FSub(mx, mn)
    IN  /\ num.k = "fin"
        /\ den.k = "fin"
        /\ 10 * num.v > ThresholdLowTenths * den.v
        /\ 10 * num.v <= ThresholdHighTenths * den.v

\* the thresholded mask of a non-empty slice
ThresholdMask(sl) ==
    LET mn == NpMin(Values(sl))
        mx == NpMax(Values(sl))
    IN  [shape |-> sl.shape,
         data |-> [c \in DOMAIN sl.data |-> InBand(sl.data[c], mn, mx)]]

CountTrue(mask) == Cardinality({c \in DOMAIN mask.data : mask.data[c]})

\* a disc that includes its rim
DiscInsideInclusive(dy, dx, radius) == dx * dx + dy * dy <= radius * radius

\* a disc one pixel smaller
DiscInsideSmaller(dy, dx, radius) ==
    radius >= 1 /\ dx * dx + dy * dy < (radius - 1) * (radius - 1)

\* the disc of the pixels (y, x) of the first two axes whose distance from
\* (shape[0] // 2, shape[1] // 2) is less than min(shape) // 4;
\* sqrt(d) < radius iff d < radius * radius
DiscInside(dy, dx, radius) == dx * dx + dy * dy < radius * radius

create_heart_shape_mask(shape) ==
    LET center_y == shape[1] \div 2
        center_x == shape[2] \div 2
        radius == SeqMin(shape) \div 4
        sh == <<shape[1], shape[2]>>
    IN  [shape |-> sh,
         data |-> [c \in IndexSet(sh) |->
                      DiscInside(c[1] - center_y, c[2] - center_x, radius)]]

\* a mask of exactly MinMaskPixels pixels replaced as well
TooSmallInclusive(n) == n <= MinMaskPixels

\* is the thresholded mask replaced by the disc?
TooSmall(n) == n < MinMaskPixels

\* np.min of an empty slice raises ValueError; callers test IsEmptyArray
create_heart_mask(sl) ==
    LET mask == ThresholdMask(sl)
    IN  IF TooSmall(CountTrue(mask)) THEN create_heart_shape_mask(sl.shape)
        ELSE mask

(***************************************************************************)
(* slice_to_base64_with_overlay: sanitising and display normalisation.     *)
(***************************************************************************)
\* the largest finite double, as np.nan_to_num substitutes it for inf
BigPos == [k |-> "big", v |-> 1]
BigNeg == [k |-> "big", v |-> -1]

\* every non-finite value replaced by 0
NanToNumAllZero(x) == IF x.k = "fin" THEN x ELSE Fin(0)

\* np.nan_to_num with its defaults: NaN -> 0.0, +inf -> the largest
\* finite double, -inf -> the most negative one
NanToNum(x) ==
    CASE x.k = "nan" -> Fin(0)
      [] x.k = "pinf" -> BigPos
      [] x.k = "ninf" -> BigNeg
      [] OTHER -> x

nan_to_num(sl) ==
    [shape |-> sl.shape, data |-> [c \in DOMAIN sl.data |-> NanToNum(sl.data[c])]]

\* x <= y on sanitised floats
SLeq(x, y) ==
    \/ x = BigNeg
    \/ y = BigPos
    \/ x.k = "fin" /\ y.k = "fin" /\ x.v <= y.v

SMin(vals) == CHOOSE m \in vals : \A x \in vals : SLeq(m, x)
SMax(vals) == CHOOSE m \in vals : \A x \in vals : SLeq(x, m)

\* a display-normalised pixel: [k |-> "rat"] is num / den exactly,
\* "tiny" a positive value below any grey level, "nan" a NaN
Rat(n, d) == [k |-> "rat", num |-> n, den |-> d]
Zero == Rat(0, 1)
One == Rat(1, 1)
TinyPix == [k |-> "tiny", num |-> 0, den |-> 1]
NanPix == [k |-> "nan", num |-> 0, den |-> 1]

\* (x - mn) / (mx - mn) for mn < mx.  With the largest double D among the
\* values: D - (-D) overflows to inf, D - f = D and f + D = D for a
\* small f.
DisplayPixel(x, mn, mx) ==
    IF mn.k = "fin" /\ mx.k = "fin" THEN Rat(x.v - mn.v, mx.v - mn.v)
    ELSE IF mn = BigNeg /\ mx = BigPos
         THEN IF x = BigPos THEN NanPix ELSE Zero        \* inf / inf, f / inf
    ELSE IF mx = BigPos
         THEN IF x = BigPos THEN One
              ELSE IF x = mn THEN Zero ELSE TinyPix      \* f / D
    ELSE IF x = BigNeg THEN Zero ELSE One                \* mn = -D: D / D

\* normalized: all zeros when max_val == min_val
NormalizeDisplay(san) ==
    LET min_val == SMin(Values(san))
        max_val == SMax(Values(san))
    IN  [shape |-> san.shape,
         data |-> [c \in DOMAIN san.data |->
                      IF max_val = min_val THEN Zero
                      ELSE DisplayPixel(san.data[c], min_val, max_val)]]


(***************************************************************************)
(* Rendering and encoding.  The PNG that matplotlib writes is modelled as  *)
(* a byte string that determines the picture: a signature, the picture's   *)
(* height and width, and one byte per displayed pixel (its grey level in   *)
(* the low 7 bits, the red overlay in the high bit).                       *)
(***************************************************************************)
PngSignature == <<137, 80, 78, 71>>

\* imshow accepts a 2-D array, or a 3-D one whose last axis has 3 or 4
\* entries (RGB, RGBA); anything else raises TypeError
ImshowAccepts(shape) ==
    \/ Len(shape) = 2
    \/ Len(shape) = 3 /\ shape[Len(shape)] \in {3, 4}

Reverse(s) == [q \in 1..Len(s) |-> s[Len(s) + 1 - q]]

\* the two imshow calls of the renderer: normalized.T, then the RGBA
\* overlay of shape (*mask.T.shape, 4)
RenderAccepts(normalized, mask) ==
    /\ ImshowAccepts(Reverse(normalized.shape))
    /\ ImshowAccepts(Reverse(mask.shape) \o <<4>>)

GreyLevel(pix) == IF pix.k = "rat" THEN (pix.num * 127) \div pix.den ELSE 0

\* the element of the transposed array at display row r, column c
\* (channel 0 of an RGB picture)
AtDisplay(arr, r, c) ==
    IF Len(arr.shape) = 2 THEN arr.data[<<c, r>>] ELSE arr.data[<<0, c, r>>]

\* the transposed array has the axes reversed: its rows are the last axis
DisplayRows(arr) == arr.shape[Len(arr.shape)]
DisplayCols(arr) == arr.shape[Len(arr.shape) - 1]

\* the PNG of a picture both imshow calls accept
RenderPng(normalized, mask) ==
    LET rows == DisplayRows(normalized)
        cols == DisplayCols(normalized)
        Red(r, c) == /\ r < mask.shape[2]
                     /\ c < mask.shape[1]
                     /\ mask.data[<<c, r>>]
        Pixel(r, c) == GreyLevel(AtDisplay(normalized, r, c))
                       + (IF Red(r, c) THEN 128 ELSE 0)
    IN  PngSignature \o <<rows, cols>>
        \o [p \in 1..(rows * cols) |-> Pixel((p - 1) \div cols, (p - 1) % cols)]

\* base64 text is a sequence of 6-bit digits 0..63 and the pad character
Pad == 64

b64encode(bytes) ==
    LET n == Len(bytes)
        At(p) == IF p <= n THEN bytes[p] ELSE 0
        Digit(q) ==
            LET g == 3 * ((q - 1) \div 4)
                pos == (q - 1) % 4
            IN  CASE pos = 0 -> At(g + 1) \div 4
                  [] pos = 1 -> (At(g + 1) % 4) * 16 + At(g + 2) \div 16
                  [] pos = 2 -> IF g + 2 > n THEN Pad
                                ELSE (At(g + 2) % 16) * 4 + At(g + 3) \div 64
                  [] pos = 3 -> IF g + 3 > n THEN Pad ELSE At(g + 3) % 64
    IN  [q \in 1..(4 * ((n + 2) \div 3)) |-> Digit(q)]

\* decoding that takes the pad characters for zero digits
b64decodeKeepPadding(text) ==
    LET D(q) == IF text[q] = 64 THEN 0 ELSE text[q]
        Byte(p) ==
            LET g == 4 * ((p - 1) \div 3)
                pos == (p - 1) % 3
            IN  CASE pos = 0 -> D(g + 1) * 4 + D(g + 2) \div 16
                  [] pos = 1 -> (D(g + 2) % 16) * 16 + D(g + 3) \div 4
                  [] pos = 2 -> (D(g + 3) % 4) * 64 + D(g + 4)
    IN  [p \in 1..(3 * (Len(text) \div 4)) |-> Byte(p)]

b64decode(text) ==
    LET m == Len(text)
        pads == Cardinality({q \in 1..m : text[q] = Pad})
        D(q) == IF text[q] = Pad THEN 0 ELSE text[q]
        Byte(p) ==
            LET g == 4 * ((p - 1) \div 3)
                pos == (p - 1) % 3
            IN  CASE pos = 0 -> D(g + 1) * 4 + D(g + 2) \div 16
                  [] pos = 1 -> (D(g + 2) % 16) * 16 + D(g + 3) \div 4
                  [] pos = 2 -> (D(g + 3) % 4) * 64 + D(g + 4)
    IN  [p \in 1..(3 * (m \div 4) - pads) |-> Byte(p)]

DataUriPrefix == "data:image/png;base64,"
DataUri(text) == [prefix |-> DataUriPrefix, payload |-> text]

\* the bytes written to SLICE_DIR/{name}_heart_segmented.png
DebugFileBytes(img_base64) == b64decode(img_base64)


(***************************************************************************)
(* Measurements.  Spacing is held in half millimetres (2 is 1.0 mm), so    *)
(* with P the product of shape[a] * spacing[a] over the three axes:        *)
(* length_cm = shape[0] * spacing[0] / 20, volume_cm3 = 3 P / 80000 and    *)
(* weight_g = 318 P / 8000000.                                             *)
(***************************************************************************)
\* the fallback spacing (1.0, 1.0, 1.0)
UnitSpacing == <<2, 2, 2>>

\* the fallback taken unless more than 3 zooms are declared
SpacingOfMoreThanThree(raw_spacing) ==
    IF Len(raw_spacing) > 3 THEN SubSeq(raw_spacing, 1, 3) ELSE <<2, 2, 2>>

\* spacing from the zooms the header declares
SpacingOf(raw_spacing) ==
    IF Len(raw_spacing) >= 3 THEN SubSeq(raw_spacing, 1, 3) ELSE UnitSpacing

\* shape[a] * spacing[a], in half millimetres
ExtentHalfMm(shape, spacing, a) == shape[a] * spacing[a]

BoxProduct(shape, spacing) ==
    ExtentHalfMm(shape, spacing, 1) * ExtentHalfMm(shape, spacing, 2)
    * ExtentHalfMm(shape, spacing, 3)

\* the volume of the whole bounding box
VolumeCm3NoShrink(shape, spacing) ==
    [num |-> 10 * BoxProduct(shape, spacing), den |-> 80000]

\* volume_cm3 = (length_cm * width_cm * depth_cm) * 0.3, as num / den
VolumeCm3(shape, spacing) ==
    [num |-> 3 * BoxProduct(shape, spacing), den |-> 80000]

\* weight_g = volume_cm3 * 1.06, as num / den
WeightG(shape, spacing) ==
    [num |-> 318 * BoxProduct(shape, spacing), den |-> 8000000]

\* the integers a float of value num / den (>= 0) can format to when it is
\* rounded to a whole number of units: the nearest one, and either
\* neighbour on a tie, which the float's binary rounding decides
Rounded(num, den) ==
    LET q == num \div den
        r == num % den
    IN  IF 2 * r < den THEN {q} ELSE IF 2 * r > den THEN {q + 1} ELSE {q, q + 1}

\* the measurements dictionaries process_nifti can return: lengths and
\* volume formatted to 0.1 (held in tenths), weight to a whole gram
MeasurementsOf(shape, spacing) ==
    LET vol == VolumeCm3(shape, spacing)
        wt == WeightG(shape, spacing)
    IN  {[length |-> l, width |-> w, depth |-> d, volume |-> v, weight |-> g] :
            l \in Rounded(ExtentHalfMm(shape, spacing, 1), 2),
            w \in Rounded(ExtentHalfMm(shape, spacing, 2), 2),
            d \in Rounded(ExtentHalfMm(shape, spacing, 3), 2),
            v \in Rounded(10 * vol.num, vol.den),
            g \in Rounded(wt.num, wt.den)}

Slider(extent, idx) == [min |-> 0, max |-> extent - 1, value |-> idx]

(***************************************************************************)
(* run_ai_analysis.  Risks and the confidence are held in 1/10000.         *)
(***************************************************************************)
BaseConfidence == 87
BaseRisks == <<87, 82, 68, 62, 58, 34>>
RiskCap == 9500

\* the thresholds taken inclusively
AgeRiskFactorFromThreshold(age) ==
    IF age # <<>> /\ age[1] # 0
    THEN IF age[1] >= 60 THEN 130 ELSE IF age[1] >= 50 THEN 115 ELSE 100
    ELSE 100

\* age_risk_factor, in hundredths; age is <<>> (None) or <<n>>
AgeRiskFactor(age) ==
    IF age # <<>> /\ age[1] # 0
    THEN IF age[1] > 60 THEN 130 ELSE IF age[1] > 50 THEN 115 ELSE 100
    ELSE 100

Capped(x) == IF x > RiskCap THEN RiskCap ELSE x

run_ai_analysis(age) ==
    [label |-> "Hypertrophic Cardiomyopathy Detected",
     confidence |-> Capped(BaseConfidence * AgeRiskFactor(age)),
     risks |-> [d \in 1..Len(BaseRisks) |-> Capped(BaseRisks[d] * AgeRiskFactor(age))]]


(***************************************************************************)
(* The state of one analyze-heart request and of the two directories.      *)
(* An optional value is <<>> (None) or <<x>>.                              *)
(***************************************************************************)
Axes == {"axial", "coronal", "sagittal"}
None == <<>>
Some(x) == <<x>>
NoAxes == [a \in Axes |-> None]

\* the spacing lists a header declares, in half millimetres
Headers ==
    {<<>>, <<MaxZoom, MaxZoom>>, <<2, 2, 2>>, <<0, 2, 2>>, <<2, MaxZoom, 1>>,
     <<MaxZoom, 2, 2, 0>>}

\* an upload that nibabel cannot parse
Corrupt == [vol |-> [shape |-> <<>>, pat |-> "corrupt"], zooms |-> <<>>]

\* the CT/MRI files a client can upload: every volume under a 1 mm
\* header, every shape of ramp volume under every header, and a corrupt one
Files ==
    {[vol |-> v, zooms |-> <<2, 2, 2>>] : v \in Volumes}
    \cup {[vol |-> [shape |-> s, pat |-> "ramp"], zooms |-> z] :
             s \in Shapes, z \in Headers}
    \cup {Corrupt}

Ages == {45, 55, 65}

\* what a debug file of an earlier request holds
StalePng == PngSignature \o <<0, 0>>

VARIABLES
    pc,          \* where the handler is
    ax,          \* 1..3: the axis the slicing / masking / rendering is at
    uploads,     \* UPLOAD_DIR: the content at ct_path, or None
    img,         \* the image nib.load returned, or None
    shape,       \* data.shape
    spacing,     \* the spacing triple, or None
    idxs,        \* axial_idx, coronal_idx, sagittal_idx
    slices,      \* axial_slice, coronal_slice, sagittal_slice
    masks,       \* axial_mask, coronal_mask, sagittal_mask
    normalized,  \* the renderer's normalized array, per axis
    urls,        \* axial_b64, coronal_b64, sagittal_b64
    slicesDir,   \* SLICE_DIR: the bytes of {axis}_heart_segmented.png
    written,     \* the bytes this request wrote to each debug file
    result,      \* what process_nifti returned, or None
    error,       \* the exception raised, or None
    response     \* the HTTP response, or None

\* a call of run_ai_analysis on its own
VARIABLES
    aiAge,       \* the patient_age argument, or None
    aiFindings   \* what the call returned, or None

aiVars == <<aiAge, aiFindings>>

\* the requests of one worker, run by its event loop
VARIABLES
    stage,       \* per request: where its handler is
    running,     \* the request whose handler holds the event loop, or 0
    filename,    \* per request: ct_mri_file.filename, or None
    optional,    \* per request: the optional uploads still to save
    handle,      \* per request: the state of the file object f it has open
    uploadDir,   \* UPLOAD_DIR: per file name the content, or None
    loaded,      \* per request: the content nib.load read, or None
    rendered,    \* per request: the debug files it has written
    slicesShared,\* SLICE_DIR: per axis the content the file was rendered from
    status       \* per request: the status of its response, or None

workerVars == <<stage, running, filename, optional, handle, uploadDir, loaded,
                rendered, slicesShared, status>>

requestVars == <<pc, ax, uploads, img, shape, spacing, idxs, slices, masks,
                 normalized, urls, slicesDir, written, result, error, response>>

vars == <<requestVars, aiVars, workerVars>>

\* no call of run_ai_analysis on its own is under way
NoAiCall == aiAge = None /\ aiFindings = None

MaxRequests == 2

\* the requests the worker receives
Requests == 1..MaxRequests

\* the file names the CT/MRI uploads come under
FileNames == {"scan.nii", "heart.nii"}

\* the file name the optional uploads come under
OptionalName == "ecg.pdf"

\* ecg_file, blood_test_file, echo_file
OptionalFiles == 3

\* the worker has received no request
NoWorker ==
    /\ stage = [r \in Requests |-> "new"]
    /\ running = 0
    /\ filename = [r \in Requests |-> None]
    /\ optional = [r \in Requests |-> 0]
    /\ handle = [r \in Requests |-> "closed"]
    /\ uploadDir = [n \in FileNames \cup {OptionalName} |-> None]
    /\ loaded = [r \in Requests |-> None]
    /\ rendered = [r \in Requests |-> 0]
    /\ slicesShared = [a \in Axes |-> None]
    /\ status = [r \in Requests |-> None]

Init ==
    /\ pc = "idle"
    /\ ax = 0
    /\ uploads = None
    /\ img = None
    /\ shape = <<>>
    /\ spacing = None
    /\ idxs = NoAxes
    /\ slices = NoAxes
    /\ masks = NoAxes
    /\ normalized = NoAxes
    /\ urls = NoAxes
    /\ slicesDir \in {NoAxes, [a \in Axes |-> StalePng]}
    /\ written = NoAxes
    /\ result = None
    /\ error = None
    /\ response = None
    /\ NoAiCall
    /\ NoWorker

Exception(type, msg) == Some([type |-> type, msg |-> msg])

\* main.py 158-161: the upload is written to UPLOAD_DIR / filename
SaveUpload ==
    /\ pc = "idle"
    /\ \E f \in Files : uploads' = Some(f)
    /\ pc' = "saved"
    /\ UNCHANGED <<ax, img, shape, spacing, idxs, slices, masks, normalized, urls,
                   slicesDir, written, result, error, response>>
    /\ UNCHANGED <<aiVars, workerVars>>

\* imaging.py 35-41: nib.load and get_fdata, any failure re-raised as
\* ValueError("Invalid NIfTI file: ...")
LoadNifti ==
    /\ pc = "saved"
    /\ IF uploads = None \/ uploads[1] = Corrupt
       THEN /\ error' = Exception("ValueError", "Invalid NIfTI file")
            /\ pc' = "raised"
            /\ img' = img
       ELSE /\ img' = uploads
            /\ pc' = "loaded"
            /\ error' = error
    /\ UNCHANGED <<ax, uploads, shape, spacing, idxs, slices, masks, normalized,
                   urls, slicesDir, written, result, response>>
    /\ UNCHANGED <<aiVars, workerVars>>

IsNot2DOrMore(ndim) == ndim < 2

\* data.ndim < 3
IsNot3D(ndim) == ndim < 3

\* imaging.py 43-50
CheckDims ==
    /\ pc = "loaded"
    /\ IF IsNot3D(Len(img[1].vol.shape))
       THEN /\ error' = Exception("ValueError", "Uploaded scan is not a 3D volume")
            /\ pc' = "raised"
            /\ shape' = shape
       ELSE /\ shape' = img[1].vol.shape
            /\ pc' = "checked"
            /\ error' = error
    /\ UNCHANGED <<ax, uploads, img, spacing, idxs, slices, masks, normalized,
                   urls, slicesDir, written, result, response>>
    /\ UNCHANGED <<aiVars, workerVars>>

\* imaging.py 52-58
ReadSpacing ==
    /\ pc = "checked"
    /\ spacing' = Some(SpacingOf(img[1].zooms))
    /\ pc' = "spaced"
    /\ UNCHANGED <<ax, uploads, img, shape, idxs, slices, masks, normalized, urls,
                   slicesDir, written, result, error, response>>
    /\ UNCHANGED <<aiVars, workerVars>>

\* imaging.py 64-66
ComputeIndices ==
    /\ pc = "spaced"
    /\ idxs' = [a \in Axes |-> Some(CenterIndex(shape, a))]
    /\ pc' = "slicing"
    /\ ax' = 1
    /\ UNCHANGED <<uploads, img, shape, spacing, slices, masks, normalized, urls,
                   slicesDir, written, result, error, response>>
    /\ UNCHANGED <<aiVars, workerVars>>

\* pc and ax after the step of axis ax: the next axis, or the next stage
Advance(next) ==
    IF ax < 3 THEN pc' = pc /\ ax' = ax + 1 ELSE pc' = next /\ ax' = 1

\* imaging.py 68-70, one slice per step
ExtractCenterSlice ==
    /\ pc = "slicing"
    /\ LET a == AxisNames[ax]
       IN  IF IndexInRange(shape, a, idxs[a][1])
           THEN /\ slices' = [slices EXCEPT ![a] =
                                 Some(ExtractSlice(img[1].vol, a, idxs[a][1]))]
                /\ Advance("masking")
                /\ error' = error
           ELSE /\ error' = Exception("IndexError", "index out of bounds")
                /\ pc' = "raised"
                /\ UNCHANGED <<ax, slices>>
    /\ UNCHANGED <<uploads, img, shape, spacing, idxs, masks, normalized, urls,
                   slicesDir, written, result, response>>
    /\ UNCHANGED <<aiVars, workerVars>>

\* imaging.py 81-83, one mask per step; np.min of an empty slice raises
CreateMask ==
    /\ pc = "masking"
    /\ LET a == AxisNames[ax]
       IN  IF IsEmptyArray(slices[a][1])
           THEN /\ error' = Exception("ValueError", "zero-size array")
                /\ pc' = "raised"
                /\ UNCHANGED <<ax, masks>>
           ELSE /\ masks' = [masks EXCEPT ![a] = Some(create_heart_mask(slices[a][1]))]
                /\ Advance("rendering")
                /\ error' = error
    /\ UNCHANGED <<uploads, img, shape, spacing, idxs, slices, normalized, urls,
                   slicesDir, written, result, response>>
    /\ UNCHANGED <<aiVars, workerVars>>


\* imaging.py 86-88 and 196-247, one slice_to_base64_with_overlay call per
\* step.  ioError: opening the debug file for writing fails (OSError).
RenderSlice ==
    /\ pc = "rendering"
    /\ \E ioError \in BOOLEAN :
        LET a == AxisNames[ax]
            san == nan_to_num(slices[a][1])
            norm == NormalizeDisplay(san)
            img_base64 == b64encode(RenderPng(norm, masks[a][1]))
        IN  /\ normalized' = [normalized EXCEPT ![a] = Some(norm)]
            /\ IF ~RenderAccepts(norm, masks[a][1])
               THEN /\ error' = Exception("TypeError", "Invalid shape for image data")
                    /\ pc' = "raised"
                    /\ UNCHANGED <<ax, urls, slicesDir, written>>
               ELSE IF ioError
               THEN /\ error' = Exception("OSError", "cannot write debug file")
                    /\ pc' = "raised"
                    /\ UNCHANGED <<ax, urls, slicesDir, written>>
               ELSE /\ slicesDir' = [slicesDir EXCEPT ![a] = DebugFileBytes(img_base64)]
                    /\ written' = [written EXCEPT ![a] = DebugFileBytes(img_base64)]
                    /\ urls' = [urls EXCEPT ![a] = Some(DataUri(img_base64))]
                    /\ Advance("measuring")
                    /\ error' = error
    /\ UNCHANGED <<uploads, img, shape, spacing, idxs, slices, masks, result,
                   response>>
    /\ UNCHANGED <<aiVars, workerVars>>

\* imaging.py 94-161: metadata, resolution, measurements, sliders, return
Measure ==
    /\ pc = "measuring"
    /\ \E m \in MeasurementsOf(shape, spacing[1]) :
        result' = Some([
            meta |-> [data_volume |-> SubSeq(shape, 1, 3)],
            resolution |-> [spacing_mm |-> spacing[1],
                            image_size |-> SubSeq(shape, 1, 3),
                            num_slices |-> shape[3]],
            measurements |-> m,
            slices_data |-> [a \in Axes |-> urls[a][1]],
            sliders |-> [a \in Axes |->
                            Slider(shape[FixedAxis[a]], idxs[a][1])]])
    /\ pc' = "returned"
    /\ UNCHANGED <<ax, uploads, img, shape, spacing, idxs, slices, masks,
                   normalized, urls, slicesDir, written, error, response>>
    /\ UNCHANGED <<aiVars, workerVars>>

\* main.py 203-245: run_ai_analysis() is called without arguments, then the
\* success response is built
Respond ==
    /\ pc = "returned"
    /\ \E patient_age \in Ages :
        response' = Some([
            status |-> "success",
            code |-> 200,
            patient_age |-> patient_age,
            measurements |-> result[1].measurements,
            slices |-> result[1].slices_data,
            sliders |-> result[1].sliders,
            ai_analysis |-> run_ai_analysis(None)])
    /\ pc' = "done"
    /\ UNCHANGED <<ax, uploads, img, shape, spacing, idxs, slices, masks,
                   normalized, urls, slicesDir, written, result, error>>
    /\ UNCHANGED <<aiVars, workerVars>>

\* an exception swallowed: what was rendered before it is sent as a success
HandleErrorPartial ==
    /\ pc = "raised"
    /\ response' = Some([status |-> "success", code |-> 200,
                         slices |-> [a \in Axes |-> urls[a]]])
    /\ pc' = "done"
    /\ UNCHANGED <<ax, uploads, img, shape, spacing, idxs, slices, masks,
                   normalized, urls, slicesDir, written, result, error>>
    /\ UNCHANGED <<aiVars, workerVars>>

\* main.py 247-253: any exception becomes HTTP 500 with its message
HandleError ==
    /\ pc = "raised"
    /\ response' = Some([status |-> "error", code |-> 500, detail |-> error[1].msg])
    /\ pc' = "done"
    /\ UNCHANGED <<ax, uploads, img, shape, spacing, idxs, slices, masks,
                   normalized, urls, slicesDir, written, result, error>>
    /\ UNCHANGED <<aiVars, workerVars>>

Next ==
    \/ SaveUpload
    \/ LoadNifti
    \/ CheckDims
    \/ ReadSpacing
    \/ ComputeIndices
    \/ ExtractCenterSlice
    \/ CreateMask
    \/ RenderSlice
    \/ Measure
    \/ Respond
    \/ HandleError

Spec == Init /\ [][Next]_vars

(***************************************************************************)
(* run_ai_analysis called on its own, for every patient age.               *)
(***************************************************************************)
MaxAge == 100

\* the patient_age arguments: None, and the integers from -1 to MaxAge
PatientAges == {None} \cup {Some(n) : n \in (0 - 1)..MaxAge}

\* no request is being handled
NoRequest ==
    /\ pc = "idle"
    /\ ax = 0
    /\ uploads = None
    /\ img = None
    /\ shape = <<>>
    /\ spacing = None
    /\ idxs = NoAxes
    /\ slices = NoAxes
    /\ masks = NoAxes
    /\ normalized = NoAxes
    /\ urls = NoAxes
    /\ slicesDir = NoAxes
    /\ written = NoAxes
    /\ result = None
    /\ error = None
    /\ response = None

InitAI ==
    /\ NoRequest
    /\ aiAge \in PatientAges
    /\ aiFindings = None
    /\ NoWorker

\* ai_engine.py 11-226: one call, run to its return
CallAI ==
    /\ aiFindings = None
    /\ aiFindings' = Some(run_ai_analysis(aiAge))
    /\ UNCHANGED <<requestVars, aiAge, workerVars>>

NextAI == CallAI

SpecAI == InitAI /\ [][NextAI]_vars

(***************************************************************************)
(* The requests of one worker.  The event loop runs one handler at a time  *)
(* and changes handler only where the running one awaits or returns; the   *)
(* uploads are valid volumes, told apart by the request they came with.    *)
(***************************************************************************)
\* as if process_nifti were awaited as well
SuspendedInProcessing(s) ==
    s \in {"new", "ct_reading", "optional_reading", "slicing", "done"}

\* does a handler at this stage leave the event loop to others?  It does
\* before it starts, at each await of an upload's read() and once returned
Suspended(s) == s \in {"new", "ct_reading", "optional_reading", "done"}

\* may the handler of request r take its next step?
MayStep(r) == IF Suspended(stage[r]) THEN running = 0 ELSE running = r

\* who holds the event loop once request r has reached stage s
Holder(r, s) == IF Suspended(s) THEN 0 ELSE r

\* open(path, "wb"): the file is created, or truncated
Opened(dir, name) == [dir EXCEPT ![name] = Some(0)]

\* f.write(content), f.close(): the content reaches the directory unless
\* the file was unlinked while open
Written(r, name) ==
    IF handle[r] = "open" THEN [uploadDir EXCEPT ![name] = Some(r)]
    ELSE uploadDir

\* main.py 126-160: the handler starts, opens ct_path and awaits the read
StartRequest(r) ==
    /\ stage[r] = "new"
    /\ MayStep(r)
    /\ \E name \in FileNames, n \in 0..OptionalFiles :
          /\ filename' = [filename EXCEPT ![r] = Some(name)]
          /\ optional' = [optional EXCEPT ![r] = n]
          /\ uploadDir' = Opened(uploadDir, name)
    /\ handle' = [handle EXCEPT ![r] = "open"]
    /\ stage' = [stage EXCEPT ![r] = "ct_reading"]
    /\ running' = Holder(r, "ct_reading")
    /\ UNCHANGED <<loaded, rendered, slicesShared, status>>
    /\ UNCHANGED <<requestVars, aiVars>>

\* main.py 160-168: the read returns, the content is written, and the
\* handler opens the first optional file and awaits its read, or goes on
\* to process_nifti
FinishCtSave(r) ==
    /\ stage[r] = "ct_reading"
    /\ MayStep(r)
    /\ LET dir == Written(r, filename[r][1])
           next == IF optional[r] > 0 THEN "optional_reading" ELSE "loading"
       IN  /\ uploadDir' = IF optional[r] > 0 THEN Opened(dir, OptionalName)
                           ELSE dir
           /\ handle' = [handle EXCEPT
                            ![r] = IF optional[r] > 0 THEN "open" ELSE "closed"]
           /\ stage' = [stage EXCEPT ![r] = next]
           /\ running' = Holder(r, next)
    /\ UNCHANGED <<filename, optional, loaded, rendered, slicesShared, status>>
    /\ UNCHANGED <<requestVars, aiVars>>

\* main.py 165-184: the read of an optional file returns, the content is
\* written, and the handler opens the next optional file or goes on
FinishOptionalSave(r) ==
    /\ stage[r] = "optional_reading"
    /\ MayStep(r)
    /\ LET dir == Written(r, OptionalName)
           next == IF optional[r] > 1 THEN "optional_reading" ELSE "loading"
       IN  /\ uploadDir' = IF optional[r] > 1 THEN Opened(dir, OptionalName)
                           ELSE dir
           /\ handle' = [handle EXCEPT
                            ![r] = IF optional[r] > 1 THEN "open" ELSE "closed"]
           /\ stage' = [stage EXCEPT ![r] = next]
           /\ running' = Holder(r, next)
    /\ optional' = [optional EXCEPT ![r] = optional[r] - 1]
    /\ UNCHANGED <<filename, loaded, rendered, slicesShared, status>>
    /\ UNCHANGED <<requestVars, aiVars>>

\* main.py 193, imaging.py 35-41: nib.load reads what is at ct_path now; a
\* missing or empty file raises, and the handler answers HTTP 500
LoadVolume(r) ==
    /\ stage[r] = "loading"
    /\ MayStep(r)
    /\ LET content == uploadDir[filename[r][1]]
       IN  IF content = None \/ content = Some(0)
           THEN /\ status' = [status EXCEPT ![r] = Some("error")]
                /\ stage' = [stage EXCEPT ![r] = "done"]
                /\ running' = Holder(r, "done")
                /\ loaded' = loaded
           ELSE /\ loaded' = [loaded EXCEPT ![r] = content]
                /\ stage' = [stage EXCEPT ![r] = "slicing"]
                /\ running' = Holder(r, "slicing")
                /\ status' = status
    /\ UNCHANGED <<filename, optional, handle, uploadDir, rendered, slicesShared>>
    /\ UNCHANGED <<requestVars, aiVars>>

\* imaging.py 43-78: the indices and the three slices
ExtractSlices(r) ==
    /\ stage[r] = "slicing"
    /\ MayStep(r)
    /\ stage' = [stage EXCEPT ![r] = "rendering"]
    /\ running' = Holder(r, "rendering")
    /\ UNCHANGED <<filename, optional, handle, uploadDir, loaded, rendered,
                   slicesShared, status>>
    /\ UNCHANGED <<requestVars, aiVars>>

\* imaging.py 80-88, 196-247: the mask of one slice is made, the slice
\* rendered and its debug file written
RenderAxis(r) ==
    /\ stage[r] = "rendering"
    /\ MayStep(r)
    /\ LET next == IF rendered[r] + 1 = Len(AxisNames) THEN "responding"
                   ELSE "rendering"
       IN  /\ slicesShared' =
                 [slicesShared EXCEPT ![AxisNames[rendered[r] + 1]] = loaded[r]]
           /\ rendered' = [rendered EXCEPT ![r] = rendered[r] + 1]
           /\ stage' = [stage EXCEPT ![r] = next]
           /\ running' = Holder(r, next)
    /\ UNCHANGED <<filename, optional, handle, uploadDir, loaded, status>>
    /\ UNCHANGED <<requestVars, aiVars>>

\* imaging.py 90-161, main.py 197-245: the measurements, the AI findings
\* and the response
SendResponse(r) ==
    /\ stage[r] = "responding"
    /\ MayStep(r)
    /\ status' = [status EXCEPT ![r] = Some("success")]
    /\ stage' = [stage EXCEPT ![r] = "done"]
    /\ running' = Holder(r, "done")
    /\ UNCHANGED <<filename, optional, handle, uploadDir, loaded, rendered,
                   slicesShared>>
    /\ UNCHANGED <<requestVars, aiVars>>

\* main.py 258-281: every file of UPLOAD_DIR and SLICES_DIR is unlinked; a
\* file that a handler has open loses its name
clear_data ==
    /\ running = 0
    /\ uploadDir' = [n \in DOMAIN uploadDir |-> None]
    /\ slicesShared' = [a \in Axes |-> None]
    /\ handle' = [r \in Requests |->
                     IF handle[r] = "open" THEN "orphan" ELSE handle[r]]
    /\ UNCHANGED <<stage, running, filename, optional, loaded, rendered, status>>
    /\ UNCHANGED <<requestVars, aiVars>>

InitWorker == NoRequest /\ NoAiCall /\ NoWorker

NextWorker ==
    \/ \E r \in Requests : StartRequest(r)
    \/ \E r \in Requests : FinishCtSave(r)
    \/ \E r \in Requests : FinishOptionalSave(r)
    \/ \E r \in Requests : LoadVolume(r)
    \/ \E r \in Requests : ExtractSlices(r)
    \/ \E r \in Requests : RenderAxis(r)
    \/ \E r \in Requests : SendResponse(r)
    \/ clear_data

SpecWorker == InitWorker /\ [][NextWorker]_vars


(***************************************************************************)
(* Properties.                                                             *)
(***************************************************************************)
\* the volume of the uploaded file that was loaded
Loaded == img[1].vol

IsSuccess == response # None /\ response[1].status = "success"
IsErrorResponse == response # None /\ response[1].status = "error"

\* C1: for every volume process_nifti accepts, the index of each axis is
\* shape[axis] // 2 and lies in 0 <= index < shape[axis], and the slider
\* of that axis is min = 0, max = shape[axis] - 1, value = index.
C1_CenterIndexAndSliders ==
    result # None =>
        \A a \in Axes :
            LET n == Loaded.shape[FixedAxis[a]]
                i == idxs[a][1]
                sl == result[1].sliders[a]
            IN  /\ 2 * i <= n /\ n <= 2 * i + 1
                /\ 0 <= i /\ i < n
                /\ sl.min = 0 /\ sl.max = n - 1 /\ sl.value = i
                /\ sl.min <= sl.value /\ sl.value <= sl.max

\* a volume with an axis of one voxel and an odd axis is accepted
C1_Witness ==
    /\ result # None
    /\ Loaded.shape = <<5, 10, 1>>
    /\ result[1].sliders["axial"] = [min |-> 0, max |-> 0, value |-> 0]
    /\ result[1].sliders["sagittal"].value = 2

\* C2: a loaded array of fewer than 3 dimensions makes process_nifti fail
\* with the error "not a 3D volume", and no slice has been extracted, no
\* mask derived and no debug file written when it does.
C2_Not3DFailsFirst ==
    (img # None /\ Len(Loaded.shape) < 3 /\ pc # "loaded") =>
        /\ error = Exception("ValueError", "Uploaded scan is not a 3D volume")
        /\ slices = NoAxes /\ masks = NoAxes /\ urls = NoAxes
        /\ written = NoAxes
        /\ slicesDir \in {NoAxes, [a \in Axes |-> StalePng]}
        /\ result = None
        /\ ~IsSuccess

C2_Witness ==
    /\ pc = "done"
    /\ img # None
    /\ Len(Loaded.shape) = 2
    /\ IsErrorResponse
    /\ response[1].detail = "Uploaded scan is not a 3D volume"

\* C3: when masking, rendering or encoding fails for one axis, the whole
\* request fails: process_nifti returns nothing and the endpoint answers
\* with an error, never with a success that holds only some axes' images.
C3_NoPartialResult ==
    /\ error # None => result = None /\ ~IsSuccess
    /\ (pc = "done" /\ error # None) => IsErrorResponse /\ response[1].code = 500
    /\ IsSuccess =>
          /\ error = None
          /\ \A a \in Axes : urls[a] # None /\ response[1].slices[a] = urls[a][1]

\* the coronal rendering fails after the axial image was produced
C3_Witness ==
    /\ pc = "done"
    /\ error # None /\ error[1].type \in {"OSError", "TypeError"}
    /\ ax = 2
    /\ urls["axial"] # None /\ urls["coronal"] = None
    /\ IsErrorResponse


\* C4: every input array of 3 or more dimensions is sliced as a volume of
\* exactly 3 dimensions, so each of the three slices is 2-dimensional.
C4_SlicesAre2D ==
    \A a \in Axes : slices[a] # None => Len(slices[a][1].shape) = 2

\* the slices that are 2-dimensional arrays and have a mask
Masked2D == {a \in Axes : masks[a] # None /\ Len(slices[a][1].shape) = 2}

\* C5, as stated: for every 2D slice, small ones included,
\* create_heart_mask returns a mask with at least one true pixel.
C5_MaskNeverEmpty ==
    \A a \in Masked2D : CountTrue(masks[a][1]) >= 1

\* C5, amended: the mask of a 2D slice has a true pixel whenever
\* min(shape) >= 4, and it is empty when min(shape) < 4 and the slice has
\* fewer than 100 pixels.
C5_MaskNonEmptyFromFour ==
    \A a \in Masked2D :
        LET sh == slices[a][1].shape
            m == Min2(sh[1], sh[2])
        IN  /\ m >= 4 => CountTrue(masks[a][1]) >= 1
            /\ (m < 4 /\ sh[1] * sh[2] < 100) => CountTrue(masks[a][1]) = 0

\* both cases in one request: a 10 x 12 slice whose thresholded mask is
\* kept, and a 1 x 12 slice whose mask is empty
C5_Witness ==
    /\ pc = "rendering"
    /\ Loaded = [shape |-> <<12, 1, 10>>, pat |-> "plateau"]
    /\ CountTrue(masks["coronal"][1]) = 100
    /\ CountTrue(masks["axial"][1]) = 0

\* do all voxels of the volume hold one value?  (the patterns are
\* constant along every axis but the first two)
VoxelsAllEqual(vol) ==
    \A i \in 0..(vol.shape[1] - 1), j \in 0..(vol.shape[2] - 1) :
        Voxel(vol, <<i, j, 0>>) = Voxel(vol, <<0, 0, 0>>)

\* is the mask the disc about (shape[0] // 2, shape[1] // 2) of radius
\* min(shape) // 4 ?
IsDiscOf(mask, sh) ==
    /\ mask.shape = <<sh[1], sh[2]>>
    /\ \A c \in DOMAIN mask.data :
          mask.data[c] <=>
              (c[1] - sh[1] \div 2) * (c[1] - sh[1] \div 2)
              + (c[2] - sh[2] \div 2) * (c[2] - sh[2] \div 2)
              < (SeqMin(sh) \div 4) * (SeqMin(sh) \div 4)

\* C6: for a volume whose voxels all hold one value, each slice's
\* display-normalised image is 0 at every pixel, its thresholded mask is
\* empty and its region mask is the disc.
C6_FlatVolume ==
    (img # None /\ Len(Loaded.shape) >= 3 /\ slices # NoAxes
        /\ VoxelsAllEqual(Loaded)) =>
        \A a \in Axes :
            /\ normalized[a] # None =>
                  \A c \in DOMAIN normalized[a][1].data :
                      normalized[a][1].data[c] = [k |-> "rat", num |-> 0, den |-> 1]
            /\ masks[a] # None =>
                  /\ CountTrue(ThresholdMask(slices[a][1])) = 0
                  /\ IsDiscOf(masks[a][1], slices[a][1].shape)

\* a flat 10 x 10 x 10 volume is processed to the end: 9 pixels in the disc
C6_Witness ==
    /\ pc = "returned"
    /\ Loaded = [shape |-> <<10, 10, 10>>, pat |-> "flat"]
    /\ \A a \in Axes : CountTrue(masks[a][1]) = 9

\* C7: for every axis, the payload of the returned data URI decodes to the
\* byte stream this request wrote to {axis}_heart_segmented.png: the file
\* holds the rendered PNG, and encoding the file gives the payload back.
C7_DataUriRoundTrip ==
    \A a \in Axes :
        urls[a] # None =>
            /\ urls[a][1].prefix = "data:image/png;base64,"
            /\ written[a] = slicesDir[a]
            /\ SubSeq(written[a], 1, 4) = <<137, 80, 78, 71>>
            /\ written[a] = RenderPng(normalized[a][1], masks[a][1])
            /\ b64encode(written[a]) = urls[a][1].payload

\* a request returned its images; one payload ends in padding, one does not
C7_Witness ==
    /\ IsSuccess
    /\ LET ax_text == response[1].slices["axial"].payload
           co_text == response[1].slices["coronal"].payload
       IN  /\ ax_text[Len(ax_text)] = Pad /\ Len(written["axial"]) > 100
           /\ co_text[Len(co_text)] # Pad


\* the zooms the loaded header declares
Declared == img[1].zooms

\* C8, as stated: the spacing is always a triple of positive values,
\* (1.0, 1.0, 1.0) when the header declares fewer than 3 zooms and the
\* first three declared values otherwise.
C8_SpacingPositiveTriple ==
    spacing # None =>
        /\ Len(spacing[1]) = 3
        /\ \A d \in 1..3 : spacing[1][d] > 0
        /\ Len(Declared) < 3 => spacing[1] = <<2, 2, 2>>
        /\ Len(Declared) >= 3 => \A d \in 1..3 : spacing[1][d] = Declared[d]

\* C8, amended: the spacing is always a triple, (1.0, 1.0, 1.0) when the
\* header declares fewer than 3 zooms and the first three declared values
\* otherwise; it is positive when those declared values are.
C8_SpacingTriple ==
    spacing # None =>
        /\ Len(spacing[1]) = 3
        /\ Len(Declared) < 3 => spacing[1] = <<2, 2, 2>>
        /\ Len(Declared) >= 3 => \A d \in 1..3 : spacing[1][d] = Declared[d]
        /\ (Len(Declared) >= 3 /\ \A d \in 1..3 : Declared[d] > 0) =>
              \A d \in 1..3 : spacing[1][d] > 0

\* a header of two zooms, neither of them 1.0, falls back to (1, 1, 1)
C8_Witness ==
    /\ spacing = Some(<<2, 2, 2>>)
    /\ Len(Declared) = 2
    /\ Declared[1] # 2

\* the exact product of the three extents, in (half millimetres)^3
ExactBox ==
    Loaded.shape[1] * spacing[1][1] * Loaded.shape[2] * spacing[1][2]
    * Loaded.shape[3] * spacing[1][3]

Abs(x) == IF x < 0 THEN -x ELSE x

IsScenario == SubSeq(Loaded.shape, 1, 3) = <<10, 10, 10>> /\ spacing[1] = <<2, 2, 2>>

\* C9, as stated for the scenario: shape (10, 10, 10) with spacing
\* (1, 1, 1) reports the volume 0.3 cm3 and a weight of about 0.318 g.
C9_ScenarioReportsWeight ==
    (result # None /\ IsScenario) =>
        /\ result[1].measurements.volume = 3
        /\ Abs(1000 * result[1].measurements.weight - 318) <= 1

\* C9, amended: the measurements depend on shape and spacing only: each
\* reported extent is shape * spacing / 10 cm to the nearest 0.1, the
\* volume is the product of the three extents times 0.3 to the nearest
\* 0.1 cm3, the weight is that product times 0.3 * 1.06 to the nearest
\* whole gram; the scenario reports 0.3 cm3 and 0 g.
C9_MeasurementsFromShapeAndSpacing ==
    result # None =>
        LET m == result[1].measurements
        IN  /\ Abs(2 * m.length - Loaded.shape[1] * spacing[1][1]) <= 1
            /\ Abs(2 * m.width - Loaded.shape[2] * spacing[1][2]) <= 1
            /\ Abs(2 * m.depth - Loaded.shape[3] * spacing[1][3]) <= 1
            /\ 2 * Abs(8000 * m.volume - 3 * ExactBox) <= 8000
            /\ 2 * Abs(8000000 * m.weight - 318 * ExactBox) <= 8000000
            /\ IsScenario => m.volume = 3 /\ m.weight = 0

\* the scenario of the ramp volume is processed to the end
C9_Witness ==
    /\ result # None
    /\ Loaded = [shape |-> <<10, 10, 10>>, pat |-> "ramp"]
    /\ spacing[1] = <<2, 2, 2>>
    /\ \A a \in Axes : idxs[a][1] = 5
    /\ result[1].measurements.volume = 3
    /\ result[1].measurements.weight = 0

\* the pixels of a slice that are not finite
NonFinite(sl) == {c \in DOMAIN sl.data : sl.data[c].k # "fin"}

\* the slice with every non-finite value replaced by 0
ZeroedNonFinite(sl) ==
    [shape |-> sl.shape,
     data |-> [c \in DOMAIN sl.data |->
                  IF sl.data[c].k = "fin" THEN sl.data[c] ELSE Fin(0)]]

\* C10, as stated: the NaN and infinite values of a slice are replaced by
\* 0 before its region mask is derived and before display normalisation.
C10_ZeroedBeforeMask ==
    \A a \in Masked2D :
        /\ masks[a][1] = create_heart_mask(ZeroedNonFinite(slices[a][1]))
        /\ normalized[a] # None =>
              normalized[a][1] = NormalizeDisplay(ZeroedNonFinite(slices[a][1]))

\* C10, amended: the region mask is derived from the slice as loaded, so a
\* slice with a NaN or infinite value gets the disc; the renderer then
\* replaces NaN by 0, +inf by the largest and -inf by the most negative
\* finite float before display normalisation: a NaN pixel is shown as a 0
\* pixel is, a +inf pixel is the only white one, a -inf pixel the only
\* black one.
C10_SanitisedInRendererOnly ==
    \A a \in Axes :
        /\ (masks[a] # None /\ NonFinite(slices[a][1]) # {}) =>
              IsDiscOf(masks[a][1], slices[a][1].shape)
        /\ normalized[a] # None =>
              \A c \in NonFinite(slices[a][1]), c2 \in DOMAIN slices[a][1].data :
                  LET x == slices[a][1].data[c]
                      y == slices[a][1].data[c2]
                      nx == normalized[a][1].data[c]
                      ny == normalized[a][1].data[c2]
                      white == [k |-> "rat", num |-> 1, den |-> 1]
                      black == [k |-> "rat", num |-> 0, den |-> 1]
                  IN  /\ (x.k = "nan" /\ y = Fin(0)) => nx = ny
                      /\ (x.k = "pinf" /\ y.k = "fin") => nx = white /\ ny # white
                      /\ (x.k = "ninf" /\ y.k = "fin") => nx = black /\ ny = white

\* a 12 x 12 slice with one +inf pixel: 119 of its pixels would pass the
\* threshold with the +inf zeroed, and its mask is the disc of 25
C10_Witness ==
    /\ pc = "returned"
    /\ Loaded = [shape |-> <<12, 12, 12>>, pat |-> "pinf"]
    /\ CountTrue(masks["axial"][1]) = 25
    /\ CountTrue(ThresholdMask(ZeroedNonFinite(slices["axial"][1]))) = 119
    /\ normalized["axial"][1].data[<<6, 6>>] = [k |-> "rat", num |-> 1, den |-> 1]

\* the response's AI findings as run_ai_analysis gives them for an age
FindingsFor(age) == run_ai_analysis(Some(age))

\* C12, as stated: the AI findings of a successful response are scaled by
\* the age multiplier of the patient_age submitted with the request, so
\* the risks of an age above 50 differ from those of an age of 50 or less.
C12_FindingsScaledByAge ==
    IsSuccess =>
        /\ response[1].ai_analysis = FindingsFor(response[1].patient_age)
        /\ response[1].patient_age > 50 =>
              response[1].ai_analysis.risks # FindingsFor(45).risks

\* are all pixels of the slice finite?
FiniteSlice(sl) == \A c \in DOMAIN sl.data : sl.data[c].k = "fin"

\* the band-pass mask of a slice: with lo and hi the least and greatest
\* pixel, (x - lo) / (hi - lo + 1e-8) > 0.3 and < 0.8; for integer pixels
\* the latter is 10 (x - lo) <= 8 (hi - lo).  A NaN or infinite pixel
\* makes every comparison fail.
BandPass(sl) ==
    LET vals == {sl.data[c].v : c \in DOMAIN sl.data}
        lo == CHOOSE x \in vals : \A y \in vals : x <= y
        hi == CHOOSE x \in vals : \A y \in vals : x >= y
        finite == FiniteSlice(sl)
    IN  [c \in DOMAIN sl.data |->
            /\ finite
            /\ 10 * (sl.data[c].v - lo) > 3 * (hi - lo)
            /\ 10 * (sl.data[c].v - lo) <= 8 * (hi - lo)]

BandCount(sl) ==
    LET band == BandPass(sl)
    IN  Cardinality({c \in DOMAIN sl.data : band[c]})

\* C13: for every 2D slice, create_heart_mask returns a boolean mask of
\* the shape of the slice; it is the band-pass mask when that mask has at
\* least 100 true pixels, and otherwise the disc about
\* (shape[0] // 2, shape[1] // 2) of radius min(shape) // 4.
C13_BandMaskOrDisc ==
    \A a \in Masked2D :
        LET sl == slices[a][1]
            mask == masks[a][1]
            band == BandPass(sl)
        IN  /\ mask.shape = sl.shape
            /\ DOMAIN mask.data = IndexSet(sl.shape)
            /\ \A c \in DOMAIN mask.data : mask.data[c] \in BOOLEAN
            /\ IF Cardinality({c \in DOMAIN band : band[c]}) >= 100
               THEN mask.data = band
               ELSE IsDiscOf(mask, sl.shape)

\* one request with both: a 12 x 10 slice whose band-pass mask of exactly
\* 100 pixels is kept, and a 12 x 5 slice whose band-pass mask of 50
\* pixels gives way to the disc of one pixel
C13_Witness ==
    /\ pc = "returned"
    /\ Loaded = [shape |-> <<12, 10, 5>>, pat |-> "plateau"]
    /\ BandCount(slices["axial"][1]) = 100
    /\ masks["axial"][1].data = BandPass(slices["axial"][1])
    /\ ~IsDiscOf(masks["axial"][1], <<12, 10>>)
    /\ BandCount(slices["coronal"][1]) = 50
    /\ CountTrue(masks["coronal"][1]) = 1

\* the axes whose mask is the disc fallback
Fallback == {a \in Axes : masks[a] # None /\ BandCount(slices[a][1]) < 100}

\* C14: whenever the disc fallback is used for a slice, the mask has a
\* true pixel if min(shape) // 4 > 0 and none if min(shape) // 4 = 0.
C14_DiscEmptyIffRadiusZero ==
    \A a \in Fallback :
        LET radius == SeqMin(slices[a][1].shape) \div 4
        IN  /\ radius > 0 => CountTrue(masks[a][1]) >= 1
            /\ radius = 0 => CountTrue(masks[a][1]) = 0

\* one request with both: a 10 x 12 slice of radius 2 and a 1 x 10 slice
\* of radius 0
C14_Witness ==
    /\ pc = "rendering"
    /\ Loaded = [shape |-> <<1, 10, 12>>, pat |-> "ramp"]
    /\ Fallback = Axes
    /\ CountTrue(masks["sagittal"][1]) = 9
    /\ CountTrue(masks["axial"][1]) = 0

\* the multiplier the age rule gives, in hundredths
RuleFactor ==
    IF aiAge # None /\ aiAge[1] > 60 THEN 130
    ELSE IF aiAge # None /\ aiAge[1] > 50 /\ aiAge[1] <= 60 THEN 115
    ELSE 100

\* a base value of hundredths scaled by the rule and capped at 0.95, in
\* ten-thousandths
Scaled(base) == IF base * RuleFactor > 9500 THEN 9500 ELSE base * RuleFactor

\* C11: for every patient age, run_ai_analysis multiplies each base risk
\* and the base confidence by 1.3 if age > 60, by 1.15 if 50 < age <= 60
\* and by 1.0 otherwise (no age included), then caps the result at 0.95;
\* every returned risk and the confidence are at most 0.95.
C11_AgeScalingCapped ==
    aiFindings # None =>
        /\ aiFindings[1].confidence = Scaled(87)
        /\ aiFindings[1].risks =
              <<Scaled(87), Scaled(82), Scaled(68), Scaled(62), Scaled(58),
                Scaled(34)>>
        /\ aiFindings[1].confidence <= 9500
        /\ \A d \in DOMAIN aiFindings[1].risks : aiFindings[1].risks[d] <= 9500

\* age 60, the last age of the middle band: 0.87 x 1.15 is capped to 0.95
\* and 0.82 x 1.15 = 0.943 is not
C11_Witness ==
    /\ aiAge = Some(60)
    /\ aiFindings # None
    /\ aiFindings[1].confidence = 9500
    /\ aiFindings[1].risks[2] = 9430

\* the requests between the first and the last step of their handling
InProgress == {r \in Requests : stage[r] \notin {"new", "done"}}

\* the stages of process_nifti and of building the response
Processing == {"loading", "slicing", "rendering", "responding"}

\* C15, as stated: within one worker a request is processed start to
\* finish before the next begins, so no second request is in progress
\* while one is.
C15_OneRequestAtATime == Cardinality(InProgress) <= 1

\* C15, amended: from the call of process_nifti to the response a request
\* is handled without interruption: while a request is loading, slicing,
\* writing debug files or responding, a step is a step of that request, it
\* leaves every other request and UPLOAD_DIR as they are, and a debug file
\* it changes holds the rendering of that request's volume.
C15_ProcessingUninterrupted ==
    [][\A r \in Requests :
          stage[r] \in Processing =>
              /\ <<stage'[r], rendered'[r]>> # <<stage[r], rendered[r]>>
              /\ \A q \in Requests \ {r} :
                    /\ stage'[q] = stage[q]
                    /\ handle'[q] = handle[q]
                    /\ loaded'[q] = loaded[q]
                    /\ rendered'[q] = rendered[q]
                    /\ status'[q] = status[q]
              /\ uploadDir' = uploadDir
              /\ \A a \in Axes :
                    slicesShared'[a] \in {slicesShared[a], loaded[r]}]_vars

\* request 1 has written one debug file while request 2, begun before it,
\* waits for the read of its upload
C15_Witness ==
    /\ stage[1] = "rendering"
    /\ rendered[1] = 1
    /\ stage[2] = "ct_reading"
    /\ running = 1

\* C16, as stated: for any interleaving of analyze-heart and clear-data
\* requests in one worker, the volume process_nifti loads for a request is
\* the content that request uploaded, never another request's and never a
\* file deleted or emptied in between.
C16_LoadsOwnUpload ==
    \A r \in Requests :
        /\ loaded[r] # None => loaded[r] = Some(r)
        /\ status[r] # Some("error")


=============================================================================
